---- MODULE Spec2Model ----
(***************************************************************************)
(* gorilla/sessions: the request-scoped session registry and the two       *)
(* stores, CookieStore and FilesystemStore (store.go), with the codec      *)
(* (securecookie), the cookie header of a request, the Set-Cookie headers  *)
(* of a response and the session directory on disk.                        *)
(*                                                                         *)
(* One handler flow is modelled: a request arrives with a Cookie header,   *)
(* the handler gets, creates, changes and saves sessions, and the next     *)
(* request arrives carrying cookies the client holds.                      *)
(***************************************************************************)
EXTENDS Integers, Sequences, FiniteSets, TLC

----------------------------------------------------------------------------
(* Bounds of the model. *)

\* cookies in one request's Cookie header
MaxCookies == 2
\* sessions allocated while one request is handled
MaxHeap == 2
\* session ids FilesystemStore.Save generates
MaxIDs == 2
\* steps of the clock
MaxTicks == 1
\* Set-Cookie headers of one response
MaxResp == 2

\* Shallow copies of the request, flashes in one queue, goroutines that
\* run file operations.
MaxCopies == 1
MaxFlashes == 2
MaxGoroutines == 3

----------------------------------------------------------------------------
(* Stores, names, errors. *)

Stores == {"cs", "fs"}

\* Session names are sequences of characters; "s-k" is valid, "s:k" is not.
SessionKey == <<"s", "-", "k">>
InvalidKey == <<"s", ":", "k">>
OtherKey == <<"o">>
Names == {SessionKey, InvalidKey}

TokenChars == {"s", "k", "o", "-"}

\* isCookieNameValid: every character is an RFC 6265 token character.
IsCookieNameValid(name) == \A i \in 1..Len(name) : name[i] \in TokenChars

NoErr == "nil"
ErrInvalidName == "sessions: invalid character in cookie name"
ErrMac == "securecookie: the value is not valid"
ErrExpired == "securecookie: expired timestamp"
ErrType == "securecookie: error decoding value"
ErrEncode == "securecookie: error encoding value"
ErrNoCodecs == "securecookie: no codecs provided"
ErrNotExist == "file does not exist"
ErrWrite == "write session file: no space left on device"
ErrSaveAll == "sessions: error saving session"

\* The nil *Session, and the empty session ID "".
Nil == 0
NoID == 0

----------------------------------------------------------------------------
(* Session values: map[interface{}]interface{}.  A value is absent, a plain *)
(* value, a pointer to a plain value, or a value of a type gob cannot      *)
(* encode.                                                                 *)

\* Flash keys: the default key and a custom one; flash values.
FlashKeys == {"_flash", "custom_key"}
FlashValues == {"foo", "bar"}

Keys == {"test", "k2"} \cup FlashKeys

Absent == [tag |-> "absent", v |-> "", l |-> <<>>]
Plain(x) == [tag |-> "plain", v |-> x, l |-> <<>>]
Pointer(x) == [tag |-> "ptr", v |-> x, l |-> <<>>]
Unencodable == [tag |-> "unreg", v |-> "", l |-> <<>>]

\* A []interface{} of flashes.
FlashList(q) == [tag |-> "list", v |-> "", l |-> q]

\* make(map[interface{}]interface{})
EmptyValues == [k \in Keys |-> Absent]

\* What a handler may assign: session.Values[k] = v.
Assignments == { <<"test", Pointer("a")>>, <<"k2", Plain("a")>> }

\* gob sends the value a pointer points to: a decoded *T arrives as T.
GobFlatten(val) == IF val.tag = "ptr" THEN Plain(val.v) ELSE val

GobEncodable(values) == \A k \in Keys : values[k].tag # "unreg"

\* gob decodes into an existing map by setting the keys it received.
MergeValues(dst, src) ==
    [k \in Keys |-> IF src[k].tag # "absent" THEN src[k] ELSE dst[k]]

----------------------------------------------------------------------------
(* The codec: securecookie.EncodeMulti / DecodeMulti.  A token binds the   *)
(* name, the serialized payload, the key and the time it was made.         *)

\* A payload is a values map (CookieStore cookie, session file) or an id
\* string (FilesystemStore cookie).
MapPayload(values) == [kind |-> "map", m |-> values, id |-> NoID]
StrPayload(id) == [kind |-> "str", m |-> EmptyValues, id |-> id]
NoPayload == [kind |-> "none", m |-> EmptyValues, id |-> NoID]

\* The empty cookie value "" and a value no key of any store signed.
EmptyToken == [n |-> <<>>, p |-> NoPayload, k |-> "", t |-> 0]
ForgedToken == [n |-> SessionKey, p |-> NoPayload, k |-> "forged", t |-> 0]

\* securecookie.CodecsFromPairs(keyPairs...): one key pair per store.
Codecs(s) == IF s = "cs" THEN <<"key-cs">> ELSE <<"key-fs">>

Serializable(p) == p.kind # "map" \/ GobEncodable(p.m)

Serialize(p) ==
    IF p.kind = "map"
    THEN [p EXCEPT !.m = [k \in Keys |-> GobFlatten(p.m[k])]]
    ELSE p

\* EncodeMulti: the first codec that encodes wins; an error when none does.
EncodeMulti(name, p, codecs, t) ==
    IF Len(codecs) = 0 THEN [err |-> ErrNoCodecs, tok |-> EmptyToken]
    ELSE IF ~Serializable(p) THEN [err |-> ErrEncode, tok |-> EmptyToken]
    ELSE [err |-> NoErr,
          tok |-> [n |-> name, p |-> Serialize(p), k |-> codecs[1], t |-> t]]

\* SecureCookie.Decode with one key: verify the MAC over name and value,
\* check the timestamp against maxAge (0: no limit), deserialize into dst.
CodecDecode(name, tok, key, kind, t, maxAge) ==
    IF tok.k # key \/ tok.n # name THEN ErrMac
    ELSE IF maxAge # 0 /\ tok.t < t - maxAge THEN ErrExpired
    ELSE IF tok.p.kind # kind THEN ErrType
    ELSE NoErr

\* DecodeMulti: the codecs in order, the first to succeed wins.
RECURSIVE DecodeFrom(_, _, _, _, _, _, _)
DecodeFrom(i, name, tok, codecs, kind, t, maxAge) ==
    IF i > Len(codecs) THEN ErrNoCodecs
    ELSE LET e == CodecDecode(name, tok, codecs[i], kind, t, maxAge)
         IN IF e = NoErr \/ i = Len(codecs) THEN e
            ELSE DecodeFrom(i + 1, name, tok, codecs, kind, t, maxAge)

DecodeMulti(name, tok, codecs, kind, t, maxAge) ==
    LET e == DecodeFrom(1, name, tok, codecs, kind, t, maxAge)
    IN [err |-> e, p |-> IF e = NoErr THEN tok.p ELSE NoPayload]

----------------------------------------------------------------------------
(* Options. *)

\* Options{Path: "/", MaxAge: 86400 * 30}
DefaultMaxAge == 86400 * 30

DefaultOptions ==
    [Path |-> "/", Domain |-> "", MaxAge |-> DefaultMaxAge,
     Secure |-> FALSE, HttpOnly |-> FALSE, SameSite |-> 0]

\* The clock advances past the default age ceiling in one step.
TickStep == DefaultMaxAge + 1

\* Ages a handler or setup code may set.
Ages == {-1, 0, DefaultMaxAge}
Paths == {"/", "/foo"}

\* Options a handler may give a session: one that sets every field, and
\* that one with each field in turn empty, zero, false or another mode.
FullOptions ==
    [Path |-> "/foo/bar", Domain |-> "foo.example.com", MaxAge |-> 3600,
     Secure |-> TRUE, HttpOnly |-> TRUE, SameSite |-> 1]

OptionVariants ==
    { FullOptions,
      [FullOptions EXCEPT !.Path = ""],
      [FullOptions EXCEPT !.Domain = ""],
      [FullOptions EXCEPT !.MaxAge = 0],
      [FullOptions EXCEPT !.Secure = FALSE],
      [FullOptions EXCEPT !.HttpOnly = FALSE],
      [FullOptions EXCEPT !.SameSite = 2] }

\* Options live in cells; a store's default Options is the cell
\* StoreCell(s), and a session's Options field points to a cell.
StoreCell(s) == IF s = "cs" THEN 1 ELSE 2
NStores == Cardinality(Stores)

----------------------------------------------------------------------------
(* State. *)

VARIABLES
    now,          \* the clock (seconds)
    codecMaxAge,  \* per store: the age ceiling of its codecs
    optHeap,      \* the Options cells: the stores' defaults, then the sessions'
    files,        \* the session directory: id -> file content, or NoFile
    idCount,      \* ids generated so far
    reqCookies,   \* the request's Cookie header, in header order
    registry,     \* the request's Registry: the cache and the save list
    heap,         \* the Session objects of the request; a *Session is an index
    resp,         \* the response's Set-Cookie headers, in order
    ret,          \* the last call: its operation, arguments and results
    hist,         \* per (store, name): the first Get of the request and
                  \* the decodes the registry asked for
    saved,        \* per store: a successful Save remembered, or NoSave
    requests,     \* the *http.Request objects of the request: the handler's
                  \* r first, then its shallow copies; each with its context
    regHeap,      \* the Registry objects other than r's own
    flashLog,     \* per session and flash key: the flashes added since the
                  \* queue was last known to be empty
    disk,         \* whether the session directory can be written
    fileMutex,    \* the process-wide sync.RWMutex
    pc            \* per goroutine: the file operation it is in

vars == <<now, codecMaxAge, optHeap, files, idCount, reqCookies, registry,
          heap, resp, ret, hist, saved, requests, regHeap, flashLog, disk,
          fileMutex, pc>>

\* The state of the request contexts, and of the lock and its goroutines.
ctxVars == <<requests, regHeap>>
lockVars == <<fileMutex, pc>>

IDs == 1..MaxIDs
NoFile == EmptyToken

\* A request cookie is a name and a value.
Cookie(name, value) == [Name |-> name, Value |-> value]

\* Matchers a caller may supply: FirstMatcher, and one that looks for a key.
Matchers == {"First", "HasK2"}

FirstMatcher(session) == TRUE

Matches(matcher, session) ==
    IF matcher = "First" THEN FirstMatcher(session)
    ELSE session.Values["k2"].tag # "absent"

----------------------------------------------------------------------------
(* Session. *)

\* NewSession(store, name): empty Values, no id.
NewSession(s, name, cell) ==
    [name |-> name, store |-> s, ID |-> NoID, Values |-> EmptyValues,
     Options |-> cell, IsNew |-> FALSE]

\* key := flashesKey; if len(vars) > 0 { key = vars[0] }
FlashKeyDefaultOnly(args) == "_flash"

FlashKey(args) == IF Len(args) > 0 THEN args[1] ELSE "_flash"

\* The flashes Values holds under key; none when the key is not set.
FlashesOf(values, key) ==
    IF values[key].tag = "list" THEN values[key].l ELSE <<>>

\* Session.AddFlash: Values[key] = append(flashes, value)
AddFlashTo(values, value, args) ==
    [values EXCEPT ![FlashKey(args)] =
        FlashList(Append(FlashesOf(values, FlashKey(args)), value))]

\* Flashes that leaves the flashes in Values.
KeepFlashes(values, args) == values

\* Session.Flashes: delete(Values, key)
DropFlashes(values, args) ==
    IF values[FlashKey(args)].tag = "absent" THEN values
    ELSE [values EXCEPT ![FlashKey(args)] = Absent]

\* session.Options = s.Options: the session shares the store's cell.
ShareOptions(s, cell) == StoreCell(s)

\* opts := *s.Options; session.Options = &opts
\* The copy is the fresh cell; the result is the pointer the session keeps.
CopyOptions(s, cell) == cell

\* r.Cookie(name): the index of the first cookie of that name, 0 if none.
FirstCookie(cookies, name) ==
    IF \E i \in 1..Len(cookies) : cookies[i].Name = name
    THEN CHOOSE i \in 1..Len(cookies) :
            /\ cookies[i].Name = name
            /\ \A j \in 1..(i - 1) : cookies[j].Name # name
    ELSE 0

----------------------------------------------------------------------------
(* CookieStore. *)

\* CookieStore.New: decode the first cookie of that name, if any.
CookieStoreNew(cookies, name, cell) ==
    LET session == [NewSession("cs", name, cell) EXCEPT
                        !.Options = CopyOptions("cs", cell), !.IsNew = TRUE]
        i == FirstCookie(cookies, name)
    IN IF i = 0 THEN [sess |-> session, err |-> NoErr]
       ELSE LET d == DecodeMulti(name, cookies[i].Value, Codecs("cs"), "map",
                                 now, codecMaxAge["cs"])
            IN IF d.err = NoErr
               THEN [sess |-> [session EXCEPT
                                 !.Values = MergeValues(@, d.p.m),
                                 !.IsNew = FALSE],
                     err |-> NoErr]
               ELSE [sess |-> session, err |-> d.err]

\* The loop without `session.Values = make(...)` after a rejected cookie.
RECURSIVE CookieStoreScanNoReset(_, _, _, _, _)
CookieStoreScanNoReset(cookies, i, name, matcher, st) ==
    IF i > Len(cookies) THEN st
    ELSE IF cookies[i].Name # name
    THEN CookieStoreScanNoReset(cookies, i + 1, name, matcher, st)
    ELSE LET d == DecodeMulti(name, cookies[i].Value, Codecs("cs"), "map",
                              now, codecMaxAge["cs"])
             s1 == [st.sess EXCEPT !.Values = MergeValues(@, d.p.m)]
         IN IF d.err = NoErr
            THEN IF Matches(matcher, s1)
                 THEN [sess |-> [s1 EXCEPT !.IsNew = FALSE], err |-> NoErr]
                 ELSE CookieStoreScanNoReset(cookies, i + 1, name, matcher,
                        [sess |-> s1, err |-> NoErr])
            ELSE CookieStoreScanNoReset(cookies, i + 1, name, matcher,
                        [sess |-> st.sess, err |-> d.err])

\* The loop of CookieStore.NewExact from cookie i on; st = [sess, err].
RECURSIVE CookieStoreScan(_, _, _, _, _)
CookieStoreScan(cookies, i, name, matcher, st) ==
    IF i > Len(cookies) THEN st
    ELSE IF cookies[i].Name # name
    THEN CookieStoreScan(cookies, i + 1, name, matcher, st)
    ELSE LET d == DecodeMulti(name, cookies[i].Value, Codecs("cs"), "map",
                              now, codecMaxAge["cs"])
             s1 == [st.sess EXCEPT !.Values = MergeValues(@, d.p.m)]
         IN IF d.err = NoErr
            THEN IF Matches(matcher, s1)
                 THEN [sess |-> [s1 EXCEPT !.IsNew = FALSE], err |-> NoErr]
                 ELSE CookieStoreScan(cookies, i + 1, name, matcher,
                        [sess |-> [s1 EXCEPT !.Values = EmptyValues],
                         err |-> NoErr])
            ELSE CookieStoreScan(cookies, i + 1, name, matcher,
                        [sess |-> st.sess, err |-> d.err])

\* CookieStore.NewExact
CookieStoreNewExact(cookies, name, matcher, cell) ==
    LET session == [NewSession("cs", name, cell) EXCEPT
                        !.Options = CopyOptions("cs", cell), !.IsNew = TRUE]
    IN CookieStoreScan(cookies, 1, name, matcher,
                       [sess |-> session, err |-> NoErr])

----------------------------------------------------------------------------
(* FilesystemStore. *)

\* FilesystemStore.load: read session_<ID> and decode it into Values.
Load(session) ==
    IF session.ID \notin IDs \/ files[session.ID] = NoFile
    THEN [sess |-> session, err |-> ErrNotExist]
    ELSE LET d == DecodeMulti(session.name, files[session.ID], Codecs("fs"),
                              "map", now, codecMaxAge["fs"])
         IN IF d.err # NoErr THEN [sess |-> session, err |-> d.err]
            ELSE [sess |-> [session EXCEPT !.Values = MergeValues(@, d.p.m)],
                  err |-> NoErr]

\* The loop of FilesystemStore.NewExact from cookie i on; st = [sess, err].
RECURSIVE FilesystemStoreScan(_, _, _, _, _)
FilesystemStoreScan(cookies, i, name, matcher, st) ==
    IF i > Len(cookies) THEN st
    ELSE IF cookies[i].Name # name
    THEN FilesystemStoreScan(cookies, i + 1, name, matcher, st)
    ELSE LET s0 == [st.sess EXCEPT !.Values = EmptyValues]
             d == DecodeMulti(name, cookies[i].Value, Codecs("fs"), "str",
                              now, codecMaxAge["fs"])
             l == Load([s0 EXCEPT !.ID = d.p.id])
         IN IF d.err # NoErr
            THEN FilesystemStoreScan(cookies, i + 1, name, matcher,
                        [sess |-> s0, err |-> d.err])
            ELSE IF l.err # NoErr
            THEN FilesystemStoreScan(cookies, i + 1, name, matcher,
                        [sess |-> l.sess, err |-> l.err])
            ELSE IF Matches(matcher, l.sess)
            THEN FilesystemStoreScan(cookies, i + 1, name, matcher,
                        [sess |-> [l.sess EXCEPT !.IsNew = FALSE],
                         err |-> NoErr])
            ELSE FilesystemStoreScan(cookies, i + 1, name, matcher,
                        [sess |-> l.sess, err |-> NoErr])

\* FilesystemStore.NewExact
FilesystemStoreNewExact(cookies, name, matcher, cell) ==
    LET session == [NewSession("fs", name, cell) EXCEPT
                        !.Options = CopyOptions("fs", cell), !.IsNew = TRUE]
    IN FilesystemStoreScan(cookies, 1, name, matcher,
                           [sess |-> session, err |-> NoErr])

\* FilesystemStore.New
FilesystemStoreNew(cookies, name, cell) ==
    FilesystemStoreNewExact(cookies, name, "First", cell)

\* Store.New / StoreExact.NewExact, by the store's type.
StoreNew(s, cookies, name, cell) ==
    IF s = "cs" THEN CookieStoreNew(cookies, name, cell)
    ELSE FilesystemStoreNew(cookies, name, cell)

StoreNewExact(s, cookies, name, matcher, cell) ==
    IF s = "cs" THEN CookieStoreNewExact(cookies, name, matcher, cell)
    ELSE FilesystemStoreNewExact(cookies, name, matcher, cell)

----------------------------------------------------------------------------
(* Cookies of the response. *)

\* NewCookie(name, value, options): the Set-Cookie header.
NewCookie(name, value, options) ==
    [Name |-> name, Value |-> value, Path |-> options.Path,
     Domain |-> options.Domain, MaxAge |-> options.MaxAge,
     Secure |-> options.Secure, HttpOnly |-> options.HttpOnly,
     SameSite |-> options.SameSite]

\* http.SetCookie(w, cookie): a cookie with an invalid name is dropped.
SetCookie(headers, cookie) ==
    IF Len(cookie.Name) > 0 /\ IsCookieNameValid(cookie.Name)
    THEN Append(headers, cookie) ELSE headers

----------------------------------------------------------------------------
(* Store.Save.  st = [files, resp, heap, idCount, err]: what a save reads   *)
(* and writes besides the clock and the Options cells.                     *)

\* A Save that encodes and sets no cookie.
CookieStoreSaveNoCookie(st, p) ==
    LET session == st.heap[p]
        e == EncodeMulti(session.name, MapPayload(session.Values),
                         Codecs("cs"), now)
    IN [st EXCEPT !.err = e.err]

\* A Save that takes the cookie's attributes from the store's Options.
CookieStoreSaveStoreOptions(st, p) ==
    LET session == st.heap[p]
        e == EncodeMulti(session.name, MapPayload(session.Values),
                         Codecs("cs"), now)
    IN IF e.err # NoErr THEN [st EXCEPT !.err = e.err]
       ELSE [st EXCEPT
               !.resp = SetCookie(@, NewCookie(session.name, e.tok,
                                               optHeap[StoreCell("cs")])),
               !.err = NoErr]

\* A Save that sets the cookie whether or not the encoding failed.
CookieStoreSaveCookieAlways(st, p) ==
    LET session == st.heap[p]
        e == EncodeMulti(session.name, MapPayload(session.Values),
                         Codecs("cs"), now)
    IN [st EXCEPT
          !.resp = SetCookie(@, NewCookie(session.name, e.tok,
                                          optHeap[session.Options])),
          !.err = e.err]

\* CookieStore.Save
CookieStoreSave(st, p) ==
    LET session == st.heap[p]
        e == EncodeMulti(session.name, MapPayload(session.Values),
                         Codecs("cs"), now)
    IN IF e.err # NoErr THEN [st EXCEPT !.err = e.err]
       ELSE [st EXCEPT
               !.resp = SetCookie(@, NewCookie(session.name, e.tok,
                                               optHeap[session.Options])),
               !.err = NoErr]

\* FilesystemStore.erase: os.Remove(session_<ID>)
Erase(fs, session) ==
    IF session.ID \notin IDs \/ fs[session.ID] = NoFile
    THEN [files |-> fs, err |-> ErrNotExist]
    ELSE [files |-> [fs EXCEPT ![session.ID] = NoFile], err |-> NoErr]

\* A save that encodes Values and writes nothing.
SaveFileNoWrite(fs, session) ==
    LET e == EncodeMulti(session.name, MapPayload(session.Values),
                         Codecs("fs"), now)
    IN [files |-> fs, err |-> e.err]

\* FilesystemStore.save: encode Values and write session_<ID>.
SaveFile(fs, session) ==
    LET e == EncodeMulti(session.name, MapPayload(session.Values),
                         Codecs("fs"), now)
    IN IF e.err # NoErr THEN [files |-> fs, err |-> e.err]
       ELSE IF disk # "ok" THEN [files |-> fs, err |-> ErrWrite]
       ELSE [files |-> [fs EXCEPT ![session.ID] = e.tok], err |-> NoErr]

\* base32(GenerateRandomKey(32)): an id never generated before.
GenerateID(count) == count + 1

\* Deleting only when MaxAge < 0.
DeletesOnSaveNegativeOnly(options) == options.MaxAge < 0

\* if session.Options.MaxAge <= 0: Save deletes the session.
DeletesOnSave(options) == options.MaxAge <= 0

\* FilesystemStore.Save
FilesystemStoreSave(st, p) ==
    LET session == st.heap[p]
        options == optHeap[session.Options]
    IN IF DeletesOnSave(options)
       THEN LET er == Erase(st.files, session)
            IN IF er.err # NoErr THEN [st EXCEPT !.err = er.err]
               ELSE [st EXCEPT
                       !.files = er.files,
                       !.resp = SetCookie(@, NewCookie(session.name,
                                                       EmptyToken, options)),
                       !.err = NoErr]
       ELSE LET fresh == session.ID = NoID
                withID == IF fresh
                          THEN [session EXCEPT !.ID = GenerateID(st.idCount)]
                          ELSE session
                st1 == [st EXCEPT
                          !.heap[p] = withID,
                          !.idCount = IF fresh THEN @ + 1 ELSE @]
                sv == SaveFile(st.files, withID)
                enc == EncodeMulti(withID.name, StrPayload(withID.ID),
                                   Codecs("fs"), now)
            IN IF sv.err # NoErr THEN [st1 EXCEPT !.err = sv.err]
               ELSE IF enc.err # NoErr
               THEN [st1 EXCEPT !.files = sv.files, !.err = enc.err]
               ELSE [st1 EXCEPT
                       !.files = sv.files,
                       !.resp = SetCookie(@, NewCookie(withID.name, enc.tok,
                                                       options)),
                       !.err = NoErr]

\* session.store.Save(r, w, session), by the store's type.
StoreSave(st, p) ==
    IF st.heap[p].store = "cs" THEN CookieStoreSave(st, p)
    ELSE FilesystemStoreSave(st, p)

----------------------------------------------------------------------------
(* The Registry of the request.                                            *)

NoEntry == [s |-> Nil, e |-> NoErr]

\* GetRegistry(r) on first access: an empty cache and save list.
EmptyRegistry ==
    [sessions |-> [key \in Stores \X Names |-> NoEntry], list |-> <<>>]

\* Registry.GetExact(store, name, matcher).  The result: the session
\* pointer and error returned, the registry afterwards, the session
\* allocated (if any) and whether store.NewExact was called.
RegistryGetExactIn(reg, s, name, matcher) ==
    LET info == reg.sessions[<<s, name>>]
        fresh == Len(heap) + 1
        r == StoreNewExact(s, reqCookies, name, matcher, NStores + fresh)
    IN IF ~IsCookieNameValid(name)
       THEN [p |-> Nil, err |-> ErrInvalidName, reg |-> reg,
             alloc |-> <<>>, called |-> FALSE]
       ELSE IF info.s # Nil
       THEN [p |-> info.s, err |-> info.e, reg |-> reg,
             alloc |-> <<>>, called |-> FALSE]
       ELSE [p |-> fresh, err |-> r.err,
             reg |-> [sessions |-> [reg.sessions EXCEPT
                                      ![<<s, name>>] = [s |-> fresh, e |-> r.err]],
                      list |-> Append(reg.list, fresh)],
             alloc |-> <<r.sess>>, called |-> TRUE]

RegistryGetExact(s, name, matcher) ==
    RegistryGetExactIn(registry, s, name, matcher)

\* Registry.Get(store, name)
RegistryGet(s, name) == RegistryGetExact(s, name, "First")

\* Registry.Save(w): every session of the save list, in order.
RECURSIVE RegistrySaveFrom(_, _, _)
RegistrySaveFrom(i, st, failed) ==
    IF i > Len(registry.list)
    THEN [st EXCEPT !.err = IF failed THEN ErrSaveAll ELSE NoErr]
    ELSE LET st1 == StoreSave(st, registry.list[i])
         IN RegistrySaveFrom(i + 1, st1, failed \/ st1.err # NoErr)

\* Save(r, w)
Save(st) == RegistrySaveFrom(1, st, FALSE)

----------------------------------------------------------------------------
(* Store.Get / StoreExact.GetExact. *)

\* A Get or GetExact that calls New or NewExact itself, not the registry.
Unregistered(r) ==
    [p |-> Len(heap) + 1, err |-> r.err, reg |-> registry,
     alloc |-> <<r.sess>>, called |-> TRUE]

CookieStoreGetUnregistered(name) ==
    Unregistered(CookieStoreNew(reqCookies, name, NStores + Len(heap) + 1))

CookieStoreGetExactUnregistered(name, matcher) ==
    Unregistered(CookieStoreNewExact(reqCookies, name, matcher,
                                     NStores + Len(heap) + 1))

FilesystemStoreGetUnregistered(name) ==
    Unregistered(FilesystemStoreNew(reqCookies, name,
                                    NStores + Len(heap) + 1))

\* CookieStore.Get
CookieStoreGet(name) == RegistryGet("cs", name)

\* CookieStore.GetExact
CookieStoreGetExact(name, matcher) == RegistryGetExact("cs", name, matcher)

\* FilesystemStore.Get
FilesystemStoreGet(name) == RegistryGet("fs", name)

\* A GetExact that hands the registry the other store.
FilesystemStoreGetExactOtherStore(name, matcher) ==
    RegistryGetExact("cs", name, matcher)

\* FilesystemStore.GetExact
FilesystemStoreGetExact(name, matcher) ==
    RegistryGetExact("fs", name, matcher)

StoreGet(s, name) ==
    IF s = "cs" THEN CookieStoreGet(name) ELSE FilesystemStoreGet(name)

StoreGetExact(s, name, matcher) ==
    IF s = "cs" THEN CookieStoreGetExact(name, matcher)
    ELSE FilesystemStoreGetExact(name, matcher)

----------------------------------------------------------------------------
(* The request's context.  A context is known by the Registry it holds:     *)
(* pointer 1 is r's own Registry (the variable registry), pointers from 2   *)
(* on are the Registry objects of regHeap, Nil is a context without one.    *)

\* http.NewRequest: a request whose context holds no registry.
NewRequestObject == [ctx |-> Nil]

\* contextSave that returns the request as it was.
ContextSaveDropped(req, val) == req

\* contextGet(r, registryKey)
ContextGet(req) == req.ctx

\* contextSave(r, registryKey, val): a request with a context that holds val.
ContextSave(req, val) == [req EXCEPT !.ctx = val]

\* The Registry a pointer points to.
RegAt(q) == IF q = 1 THEN registry ELSE regHeap[q - 1]

\* GetRegistry(r) for request object i: the registry of its context, or a
\* new one saved in its context.  The result: the pointer, the request
\* objects afterwards, and whether the registry is new.
GetRegistry(i) ==
    LET q == ContextGet(requests[i])
        n == IF i = 1 THEN 1 ELSE Len(regHeap) + 2
    IN IF q # Nil THEN [ptr |-> q, reqs |-> requests, fresh |-> FALSE]
       ELSE [ptr |-> n,
             reqs |-> [requests EXCEPT ![i] = ContextSave(@, n)],
             fresh |-> TRUE]

NoLog == [valid |-> FALSE, q |-> <<>>]
NoFlashLog == [p \in 1..MaxHeap |-> [k \in FlashKeys |-> NoLog]]

\* Goroutines that run FilesystemStore file operations.
Goroutines == 1..MaxGoroutines
Idle == [op |-> "idle", at |-> "idle", id |-> NoID, err |-> NoErr]
Unlocked == [writer |-> Nil, readers |-> {}, w |-> Nil]

\* The session a goroutine's file operation works on.
FileSession(id) == [NewSession("fs", SessionKey, 2) EXCEPT !.ID = id]

\* A Lock() that returns while readers hold the lock.
CanLockAmongReaders(m) == m.writer = Nil

\* fileMutex.Lock() returns when no goroutine holds the lock.
CanLock(m) == m.writer = Nil /\ m.readers = {}

\* fileMutex.RLock() returns when no writer holds the lock or has announced
\* itself and waits for the readers to leave.
CanRLock(m) == m.w = Nil

\* Goroutine t holds fileMutex: it has locked and not yet unlocked.
Holding(t) == pc[t].at \in {"io", "unlock"}

\* Goroutine t is inside its file system call.
Working(t) == pc[t].at = "io"

----------------------------------------------------------------------------
(* Initial state: NewCookieStore and NewFilesystemStore have run, the      *)
(* session directory is empty, and a request without cookies has arrived.  *)

NoHist == [got |-> FALSE, p |-> Nil, e |-> NoErr, calls |-> 0]
NoSave == [has |-> FALSE, cur |-> FALSE, name |-> <<>>,
           Values |-> EmptyValues, ID |-> NoID, cookie |-> EmptyToken,
           file |-> NoFile]

Init ==
    /\ now = 0
    /\ codecMaxAge = [s \in Stores |-> DefaultMaxAge]
    /\ optHeap = [i \in 1..NStores |-> DefaultOptions]
    /\ files = [i \in IDs |-> NoFile]
    /\ idCount = 0
    /\ reqCookies = <<>>
    /\ registry = EmptyRegistry
    /\ heap = <<>>
    /\ resp = <<>>
    /\ ret = [op |-> "Init"]
    /\ hist = [key \in Stores \X Names |-> NoHist]
    /\ saved = [s \in Stores |-> NoSave]
    /\ requests = <<NewRequestObject>>
    /\ regHeap = <<>>
    /\ flashLog = NoFlashLog
    /\ disk = "ok"
    /\ fileMutex = Unlocked
    /\ pc = [t \in Goroutines |-> Idle]

\* The state a save works on.
SaveState == [files |-> files, resp |-> resp, heap |-> heap,
              idCount |-> idCount, err |-> NoErr]

\* A save of session p that took SaveState to a, returned nil and emitted a
\* cookie with MaxAge > 0, as an observer remembers it for the store.
Remember(a, p) ==
    LET session == a.heap[p]
    IN IF /\ a.err = NoErr
          /\ Len(a.resp) > Len(resp)
          /\ optHeap[session.Options].MaxAge > 0
       THEN [saved EXCEPT ![session.store] =
               [has |-> TRUE, cur |-> TRUE, name |-> session.name,
                Values |-> session.Values, ID |-> session.ID,
                cookie |-> a.resp[Len(a.resp)].Value,
                file |-> IF session.store = "fs" THEN a.files[session.ID]
                         ELSE NoFile]]
       ELSE saved

----------------------------------------------------------------------------
(* The client and the clock. *)

\* Cookies a client may send: those the response set, and forged ones
\* under the session's name and under another name.
RespCookies == { Cookie(resp[i].Name, resp[i].Value) : i \in 1..Len(resp) }
ForgedCookie == Cookie(SessionKey, ForgedToken)
OtherCookie == Cookie(OtherKey, ForgedToken)

\* The Cookie headers of at most MaxCookies cookies of a pool.
CookieHeaders(pool) == UNION { [1..n -> pool] : n \in 0..MaxCookies }

\* The next request arrives with the header cookies: a new Registry, no
\* sessions, a new response.
NewRequest(cookies) ==
    /\ reqCookies' = cookies
    /\ registry' = EmptyRegistry
    /\ heap' = <<>>
    /\ optHeap' = SubSeq(optHeap, 1, NStores)
    /\ resp' = <<>>
    /\ hist' = [key \in Stores \X Names |-> NoHist]
    /\ saved' = [s \in Stores |-> [saved[s] EXCEPT !.cur = FALSE]]
    /\ ret' = [op |-> "NewRequest"]
    /\ requests' = <<NewRequestObject>>
    /\ regHeap' = <<>>
    /\ flashLog' = NoFlashLog
    /\ UNCHANGED <<now, codecMaxAge, files, idCount>>
    /\ UNCHANGED <<disk, lockVars>>

\* r.AddCookie(c) while the request is handled.
AddCookie(c) ==
    /\ Len(reqCookies) < MaxCookies
    /\ reqCookies' = Append(reqCookies, c)
    /\ ret' = [op |-> "AddCookie"]
    /\ UNCHANGED <<now, codecMaxAge, optHeap, files, idCount, registry, heap,
                   resp, hist, saved>>
    /\ UNCHANGED <<ctxVars, flashLog, disk, lockVars>>

\* The session directory becomes unwritable, or writable again.
SetDisk(d) ==
    /\ disk # d
    /\ disk' = d
    /\ ret' = [op |-> "SetDisk"]
    /\ UNCHANGED <<now, codecMaxAge, optHeap, files, idCount, reqCookies,
                   registry, heap, resp, hist, saved>>
    /\ UNCHANGED <<ctxVars, flashLog, lockVars>>

\* What the steps of a file operation leave alone.
FileStepUnchanged ==
    UNCHANGED <<now, codecMaxAge, optHeap, idCount, reqCookies, registry,
                heap, resp, hist, saved, ctxVars, flashLog, disk>>

\* Goroutine t enters save, load or erase of session_<id>: it has built the
\* file name and is about to take the lock.
Call(t, op, id) ==
    /\ pc[t] = Idle
    /\ pc' = [pc EXCEPT ![t] = [op |-> op, at |-> "lock", id |-> id,
                                err |-> NoErr]]
    /\ ret' = [op |-> "Call", t |-> t]
    /\ UNCHANGED <<files, fileMutex>>
    /\ FileStepUnchanged

\* save: fileMutex.Lock(), first half: the writer takes the lock's inner
\* mutex and announces itself; from here on RLock blocks.
Announce(t) ==
    /\ pc[t].op = "save" /\ pc[t].at = "lock"
    /\ fileMutex.w = Nil
    /\ fileMutex' = [fileMutex EXCEPT !.w = t]
    /\ pc' = [pc EXCEPT ![t].at = "wait"]
    /\ ret' = [op |-> "Announce", t |-> t]
    /\ UNCHANGED files
    /\ FileStepUnchanged

\* save: fileMutex.Lock(), second half: the readers have left.
Lock(t) ==
    /\ pc[t].op = "save" /\ pc[t].at = "wait"
    /\ fileMutex.w = t
    /\ CanLock(fileMutex)
    /\ fileMutex' = [fileMutex EXCEPT !.writer = t]
    /\ pc' = [pc EXCEPT ![t].at = "io"]
    /\ ret' = [op |-> "Lock", t |-> t]
    /\ UNCHANGED files
    /\ FileStepUnchanged

\* load, erase: fileMutex.RLock()
RLock(t) ==
    /\ pc[t].op \in {"load", "erase"} /\ pc[t].at = "lock"
    /\ CanRLock(fileMutex)
    /\ fileMutex' = [fileMutex EXCEPT !.readers = @ \cup {t}]
    /\ pc' = [pc EXCEPT ![t].at = "io"]
    /\ ret' = [op |-> "RLock", t |-> t]
    /\ UNCHANGED files
    /\ FileStepUnchanged

\* save: ioutil.WriteFile(filename, encoded, 0600)
WriteFile(t) ==
    /\ pc[t].op = "save" /\ pc[t].at = "io"
    /\ LET sv == SaveFile(files, FileSession(pc[t].id))
       IN /\ files' = sv.files
          /\ pc' = [pc EXCEPT ![t].at = "unlock", ![t].err = sv.err]
    /\ ret' = [op |-> "WriteFile", t |-> t]
    /\ UNCHANGED fileMutex
    /\ FileStepUnchanged

\* load: ioutil.ReadFile(filename) and DecodeMulti, both under the lock.
ReadFile(t) ==
    /\ pc[t].op = "load" /\ pc[t].at = "io"
    /\ pc' = [pc EXCEPT ![t].at = "unlock",
                        ![t].err = Load(FileSession(pc[t].id)).err]
    /\ ret' = [op |-> "ReadFile", t |-> t]
    /\ UNCHANGED <<files, fileMutex>>
    /\ FileStepUnchanged

\* erase: os.Remove(filename)
Remove(t) ==
    /\ pc[t].op = "erase" /\ pc[t].at = "io"
    /\ LET er == Erase(files, FileSession(pc[t].id))
       IN /\ files' = er.files
          /\ pc' = [pc EXCEPT ![t].at = "unlock", ![t].err = er.err]
    /\ ret' = [op |-> "Remove", t |-> t]
    /\ UNCHANGED fileMutex
    /\ FileStepUnchanged

\* save: the deferred fileMutex.Unlock(), and the return.
Unlock(t) ==
    /\ pc[t].op = "save" /\ pc[t].at = "unlock"
    /\ fileMutex' = [fileMutex EXCEPT !.writer = Nil, !.w = Nil]
    /\ pc' = [pc EXCEPT ![t] = Idle]
    /\ ret' = [op |-> "Unlock", t |-> t, err |-> pc[t].err]
    /\ UNCHANGED files
    /\ FileStepUnchanged

\* A load or erase that unlocks before a nil return only, not by defer.
RUnlockOnSuccess(t) ==
    /\ pc[t].op \in {"load", "erase"} /\ pc[t].at = "unlock"
    /\ fileMutex' = IF pc[t].err = NoErr
                    THEN [fileMutex EXCEPT !.readers = @ \ {t}]
                    ELSE fileMutex
    /\ pc' = [pc EXCEPT ![t] = Idle]
    /\ ret' = [op |-> "RUnlock", t |-> t, err |-> pc[t].err]
    /\ UNCHANGED files
    /\ FileStepUnchanged

\* load, erase: the deferred fileMutex.RUnlock(), and the return.
RUnlock(t) ==
    /\ pc[t].op \in {"load", "erase"} /\ pc[t].at = "unlock"
    /\ fileMutex' = [fileMutex EXCEPT !.readers = @ \ {t}]
    /\ pc' = [pc EXCEPT ![t] = Idle]
    /\ ret' = [op |-> "RUnlock", t |-> t, err |-> pc[t].err]
    /\ UNCHANGED files
    /\ FileStepUnchanged

Tick ==
    /\ now < MaxTicks * TickStep
    /\ now' = now + TickStep
    /\ ret' = [op |-> "Tick"]
    /\ UNCHANGED <<codecMaxAge, optHeap, files, idCount, reqCookies, registry,
                   heap, resp, hist, saved>>
    /\ UNCHANGED <<ctxVars, flashLog, disk, lockVars>>

----------------------------------------------------------------------------
(* The handler's calls. *)

\* The effect of a registry-mediated call with result r.
Registered(op, s, name, matcher, r) ==
    /\ Len(heap) + Len(r.alloc) <= MaxHeap
    /\ registry' = r.reg
    /\ heap' = heap \o r.alloc
    /\ optHeap' = IF r.alloc # <<>>
                  THEN Append(optHeap, optHeap[StoreCell(s)]) ELSE optHeap
    /\ hist' = [hist EXCEPT ![<<s, name>>] =
                  [got |-> TRUE,
                   p |-> IF @.got THEN @.p ELSE r.p,
                   e |-> IF @.got THEN @.e ELSE r.err,
                   calls |-> @.calls + IF r.called THEN 1 ELSE 0]]
    /\ ret' = [op |-> op, s |-> s, n |-> name, m |-> matcher, p |-> r.p,
               err |-> r.err, called |-> r.called,
               again |-> hist[<<s, name>>].got, req |-> 1]
    /\ requests' = GetRegistry(1).reqs
    /\ UNCHANGED <<now, codecMaxAge, files, idCount, reqCookies, resp, saved>>
    /\ UNCHANGED <<regHeap, flashLog, disk, lockVars>>

\* store.Get(r, name)
Get(s, name) == Registered("Get", s, name, "First", StoreGet(s, name))

\* store.GetExact(r, name, matcher)
GetExact(s, name, matcher) ==
    Registered("GetExact", s, name, matcher, StoreGetExact(s, name, matcher))

\* r2 := r.WithContext(r.Context()): a shallow copy of request object i
\* that shares its context.
ShallowCopy(i) ==
    /\ Len(requests) < 1 + MaxCopies
    /\ requests' = Append(requests, requests[i])
    /\ ret' = [op |-> "WithContext", req |-> i]
    /\ UNCHANGED <<now, codecMaxAge, optHeap, files, idCount, reqCookies,
                   registry, heap, resp, hist, saved>>
    /\ UNCHANGED <<regHeap, flashLog, disk, lockVars>>

\* store.Get(r2, name) on the shallow copy i of the request.
GetCopy(i, s, name) ==
    LET g == GetRegistry(i)
        reg == IF g.fresh THEN EmptyRegistry ELSE RegAt(g.ptr)
        r == RegistryGetExactIn(reg, s, name, "First")
        own == g.ptr = 1
    IN /\ i > 1
       /\ Len(heap) + Len(r.alloc) <= MaxHeap
       /\ requests' = g.reqs
       /\ registry' = IF own THEN r.reg ELSE registry
       /\ regHeap' = IF own THEN regHeap
                     ELSE IF g.fresh THEN Append(regHeap, r.reg)
                     ELSE [regHeap EXCEPT ![g.ptr - 1] = r.reg]
       /\ heap' = heap \o r.alloc
       /\ optHeap' = IF r.alloc # <<>>
                     THEN Append(optHeap, optHeap[StoreCell(s)]) ELSE optHeap
       /\ hist' = IF own
                  THEN [hist EXCEPT ![<<s, name>>] =
                          [got |-> TRUE,
                           p |-> IF @.got THEN @.p ELSE r.p,
                           e |-> IF @.got THEN @.e ELSE r.err,
                           calls |-> @.calls + IF r.called THEN 1 ELSE 0]]
                  ELSE hist
       /\ ret' = [op |-> "Get", s |-> s, n |-> name, m |-> "First",
                  p |-> r.p, err |-> r.err, called |-> r.called,
                  again |-> own /\ hist[<<s, name>>].got, req |-> i]
       /\ UNCHANGED <<now, codecMaxAge, files, idCount, reqCookies, resp,
                      saved>>
       /\ UNCHANGED <<flashLog, disk, lockVars>>

\* The effect of a direct New / NewExact with result r = [sess, err].
Created(op, s, name, matcher, r) ==
    /\ Len(heap) < MaxHeap
    /\ heap' = Append(heap, r.sess)
    /\ optHeap' = Append(optHeap, optHeap[StoreCell(s)])
    /\ ret' = [op |-> op, s |-> s, n |-> name, m |-> matcher,
               p |-> Len(heap) + 1, err |-> r.err]
    /\ UNCHANGED <<now, codecMaxAge, files, idCount, reqCookies, registry,
                   resp, hist, saved>>
    /\ UNCHANGED <<ctxVars, flashLog, disk, lockVars>>

\* A New that goes through the request's registry, as Get does.
NewThroughRegistry(s, name) ==
    Registered("New", s, name, "First", StoreGet(s, name))

\* store.New(r, name)
New(s, name) ==
    Created("New", s, name, "First",
            StoreNew(s, reqCookies, name, NStores + Len(heap) + 1))

\* store.NewExact(r, name, matcher)
NewExact(s, name, matcher) ==
    Created("NewExact", s, name, matcher,
            StoreNewExact(s, reqCookies, name, matcher,
                          NStores + Len(heap) + 1))

\* session.Values[k] = v
SetValue(p, k, v) ==
    /\ heap[p].Values[k] # v
    /\ heap' = [heap EXCEPT ![p].Values[k] = v]
    /\ ret' = [op |-> "SetValue", p |-> p]
    /\ UNCHANGED <<now, codecMaxAge, optHeap, files, idCount, reqCookies,
                   registry, resp, hist, saved>>
    /\ UNCHANGED <<ctxVars, flashLog, disk, lockVars>>

\* session.AddFlash(value, vars...)
AddFlash(p, value, args) ==
    LET key == IF args = <<>> THEN "_flash" ELSE args[1]
        was == heap[p].Values[key]
    IN /\ Len(FlashesOf(heap[p].Values, FlashKey(args))) < MaxFlashes
       /\ heap' = [heap EXCEPT ![p].Values = AddFlashTo(@, value, args)]
       /\ flashLog' = [flashLog EXCEPT ![p][key] =
                          IF @.valid THEN [@ EXCEPT !.q = Append(@, value)]
                          ELSE IF was = Absent
                          THEN [valid |-> TRUE, q |-> <<value>>]
                          ELSE @]
       /\ ret' = [op |-> "AddFlash", p |-> p, args |-> args]
       /\ UNCHANGED <<now, codecMaxAge, optHeap, files, idCount, reqCookies,
                      registry, resp, hist, saved>>
       /\ UNCHANGED <<ctxVars, disk, lockVars>>

\* flashes = session.Flashes(vars...)
Flashes(p, args) ==
    LET key == IF args = <<>> THEN "_flash" ELSE args[1]
    IN /\ heap' = [heap EXCEPT ![p].Values = DropFlashes(@, args)]
       /\ flashLog' = [flashLog EXCEPT ![p][key] =
                          [valid |-> TRUE, q |-> <<>>]]
       /\ ret' = [op |-> "Flashes", p |-> p, args |-> args,
                  flashes |-> FlashesOf(heap[p].Values, FlashKey(args))]
       /\ UNCHANGED <<now, codecMaxAge, optHeap, files, idCount, reqCookies,
                      registry, resp, hist, saved>>
       /\ UNCHANGED <<ctxVars, disk, lockVars>>

\* session.Options.MaxAge = age
SetSessionMaxAge(p, age) ==
    /\ optHeap[heap[p].Options].MaxAge # age
    /\ optHeap' = [optHeap EXCEPT ![heap[p].Options].MaxAge = age]
    /\ ret' = [op |-> "SetSessionMaxAge", p |-> p]
    /\ UNCHANGED <<now, codecMaxAge, files, idCount, reqCookies, registry,
                   heap, resp, hist, saved>>
    /\ UNCHANGED <<ctxVars, flashLog, disk, lockVars>>

\* session.Options = &Options{...}
SetSessionOptions(p, options) ==
    /\ optHeap[heap[p].Options] # options
    /\ optHeap' = [optHeap EXCEPT ![heap[p].Options] = options]
    /\ ret' = [op |-> "SetSessionOptions", p |-> p]
    /\ UNCHANGED <<now, codecMaxAge, files, idCount, reqCookies, registry,
                   heap, resp, hist, saved>>
    /\ UNCHANGED <<ctxVars, flashLog, disk, lockVars>>

\* session.Options.Path = path
SetSessionPath(p, path) ==
    /\ optHeap[heap[p].Options].Path # path
    /\ optHeap' = [optHeap EXCEPT ![heap[p].Options].Path = path]
    /\ ret' = [op |-> "SetSessionPath", p |-> p]
    /\ UNCHANGED <<now, codecMaxAge, files, idCount, reqCookies, registry,
                   heap, resp, hist, saved>>
    /\ UNCHANGED <<ctxVars, flashLog, disk, lockVars>>

\* store.Options.Path = path
SetStorePath(s, path) ==
    /\ optHeap[StoreCell(s)].Path # path
    /\ optHeap' = [optHeap EXCEPT ![StoreCell(s)].Path = path]
    /\ ret' = [op |-> "SetStorePath", s |-> s]
    /\ UNCHANGED <<now, codecMaxAge, files, idCount, reqCookies, registry,
                   heap, resp, hist, saved>>
    /\ UNCHANGED <<ctxVars, flashLog, disk, lockVars>>

\* CookieStore.MaxAge / FilesystemStore.MaxAge: the store's default and
\* the age ceiling of each of its codecs.
MaxAge(s, age) ==
    /\ optHeap[StoreCell(s)].MaxAge # age \/ codecMaxAge[s] # age
    /\ optHeap' = [optHeap EXCEPT ![StoreCell(s)].MaxAge = age]
    /\ codecMaxAge' = [codecMaxAge EXCEPT ![s] = age]
    /\ ret' = [op |-> "MaxAge", s |-> s]
    /\ UNCHANGED <<now, files, idCount, reqCookies, registry, heap, resp,
                   hist, saved>>
    /\ UNCHANGED <<ctxVars, flashLog, disk, lockVars>>

\* The effect of saves that took SaveState to a.
Stored(a) ==
    /\ a.idCount <= MaxIDs
    /\ Len(a.resp) <= MaxResp
    /\ files' = a.files
    /\ resp' = a.resp
    /\ heap' = a.heap
    /\ idCount' = a.idCount
    /\ UNCHANGED <<now, codecMaxAge, optHeap, reqCookies, registry, hist>>
    /\ UNCHANGED <<regHeap, flashLog, disk, lockVars>>

\* session.Save(r, w): the owning store's Save of one session; observe
\* says whether the observer remembers the save.
SessionSave(p, observe) ==
    LET a == StoreSave(SaveState, p)
    IN /\ Stored(a)
       /\ saved' = IF observe THEN Remember(a, p) ELSE saved
       /\ requests' = requests
       /\ ret' = [op |-> "Save", s |-> heap[p].store, p |-> p, err |-> a.err]

\* Save(r, w): every registered session.
SaveAll ==
    LET a == Save(SaveState)
    IN /\ Stored(a)
       /\ saved' = saved
       /\ requests' = GetRegistry(1).reqs
       /\ ret' = [op |-> "SaveAll", err |-> a.err]

----------------------------------------------------------------------------
(* Specifications.  Each is the handler flow over the same state, with the *)
(* calls and the inputs one part of the package needs.                     *)

PlainAssignments == { <<"test", Plain("a")>>, <<"k2", Plain("a")>> }

\* The registry: sessions got through both stores, cookies added while
\* the request is handled, and Save(r, w).
Next ==
    \/ \E cookies \in CookieHeaders(RespCookies \cup {ForgedCookie}) :
          NewRequest(cookies)
    \/ \E c \in RespCookies \cup {ForgedCookie} : AddCookie(c)
    \/ \E s \in Stores, name \in Names : Get(s, name)
    \/ \E s \in Stores : GetExact(s, SessionKey, "HasK2")
    \/ SaveAll

Spec == Init /\ [][Next]_vars

\* CookieStore: sessions created from the request's cookies and saved.
NextCookieStore ==
    \/ \E cookies \in CookieHeaders(RespCookies \cup {ForgedCookie, OtherCookie}) :
          NewRequest(cookies)
    \/ New("cs", SessionKey)
    \/ \E m \in Matchers : NewExact("cs", SessionKey, m)
    \/ \E p \in 1..Len(heap), a \in PlainAssignments : SetValue(p, a[1], a[2])
    \/ \E p \in 1..Len(heap) : SessionSave(p, FALSE)

SpecCookieStore == Init /\ [][NextCookieStore]_vars

\* FilesystemStore: sessions created from the request's cookies and the
\* session directory, saved and deleted.
NextFilesystemStore ==
    \/ \E cookies \in CookieHeaders(RespCookies) : NewRequest(cookies)
    \/ New("fs", SessionKey)
    \/ NewExact("fs", SessionKey, "HasK2")
    \/ \E p \in 1..Len(heap) : SetValue(p, "k2", Plain("a"))
    \/ \E p \in 1..Len(heap), age \in {-1, 0} : SetSessionMaxAge(p, age)
    \/ \E p \in 1..Len(heap) : SessionSave(p, FALSE)

SpecFilesystemStore == Init /\ [][NextFilesystemStore]_vars

\* Options: sessions created and got while setup code and handlers assign
\* the stores' and the sessions' Options.
NextOptions ==
    \/ NewRequest(<<>>)
    \/ \E s \in Stores : New(s, SessionKey)
    \/ \E s \in Stores : NewExact(s, SessionKey, "First")
    \/ \E s \in Stores : Get(s, SessionKey)
    \/ \E s \in Stores, path \in Paths : SetStorePath(s, path)
    \/ \E s \in Stores, age \in Ages : MaxAge(s, age)
    \/ \E p \in 1..Len(heap), path \in Paths : SetSessionPath(p, path)
    \/ \E p \in 1..Len(heap), age \in Ages : SetSessionMaxAge(p, age)

SpecOptions == Init /\ [][NextOptions]_vars

\* The cookies of the saves remembered.
SavedCookies ==
    { Cookie(saved[s].name, saved[s].cookie) : s \in { x \in Stores : saved[x].has } }

\* The round trip: a handler gets one session, sets values and saves once;
\* a later request, at once or after the codecs' age ceiling, carries the
\* cookie of a save remembered.
NextRoundTrip ==
    \/ \E c \in SavedCookies : NewRequest(<<c>>)
    \/ \E s \in Stores : Len(heap) = 0 /\ Get(s, SessionKey)
    \/ \E p \in 1..Len(heap), a \in Assignments : SetValue(p, a[1], a[2])
    \/ \E p \in 1..Len(heap) : SetSessionMaxAge(p, -1)
    \/ \E p \in 1..Len(heap) : Len(resp) = 0 /\ SessionSave(p, TRUE)
    \/ Len(heap) = 0 /\ Tick

SpecRoundTrip == Init /\ [][NextRoundTrip]_vars

\* The context: sessions got through the request and through shallow
\* copies of it, taken before and after the first Get.
NextContext ==
    \/ \E cookies \in {<<>>, <<ForgedCookie>>} : NewRequest(cookies)
    \/ \E s \in Stores : Get(s, SessionKey)
    \/ \E i \in 1..Len(requests) : ShallowCopy(i)
    \/ \E i \in 1..Len(requests), s \in Stores : GetCopy(i, s, SessionKey)
    \/ \E p \in 1..Len(heap), a \in PlainAssignments : SetValue(p, a[1], a[2])

SpecContext == Init /\ [][NextContext]_vars

\* Flashes: a handler gets one session, adds and reads flashes under the
\* default and a custom key and saves once; the next request carries the
\* cookie.
FlashVars == {<<>>, <<"custom_key">>}
FlashCalls == { <<"foo", <<>>>>, <<"bar", <<>>>>, <<"bar", <<"custom_key">>>> }

NextFlashes ==
    \/ \E cookies \in {<<>>} \cup { <<c>> : c \in RespCookies } :
          NewRequest(cookies)
    \/ Len(heap) = 0 /\ Get("cs", SessionKey)
    \/ \E p \in 1..Len(heap), c \in FlashCalls : AddFlash(p, c[1], c[2])
    \/ \E p \in 1..Len(heap), k \in FlashVars : Flashes(p, k)
    \/ \E p \in 1..Len(heap) : Len(resp) = 0 /\ SessionSave(p, FALSE)

SpecFlashes == Init /\ [][NextFlashes]_vars

\* Cookie attributes: a handler creates one session, gives it Options and
\* saves it, while the store's default Path is assigned.
NextCookieOptions ==
    \/ NewRequest(<<>>)
    \/ \E s \in Stores : Len(heap) = 0 /\ New(s, SessionKey)
    \/ \E p \in 1..Len(heap), o \in OptionVariants : SetSessionOptions(p, o)
    \/ \E s \in Stores, path \in Paths : SetStorePath(s, path)
    \/ \E p \in 1..Len(heap) : SessionSave(p, FALSE)

SpecCookieOptions == Init /\ [][NextCookieOptions]_vars

\* Failing saves: a handler gets or creates one session, may give it a
\* value gob cannot encode or a MaxAge that deletes, and saves it while the
\* session directory may be unwritable.
NextSaveErrors ==
    \/ \E cookies \in {<<>>} \cup { <<c>> : c \in RespCookies } :
          NewRequest(cookies)
    \/ \E s \in Stores : Len(heap) = 0 /\ Get(s, SessionKey)
    \/ \E s \in Stores : Len(heap) = 0 /\ New(s, SessionKey)
    \/ \E p \in 1..Len(heap) : SetValue(p, "test", Unencodable)
    \/ \E p \in 1..Len(heap) : SetValue(p, "test", Plain("a"))
    \/ \E p \in 1..Len(heap) : SetSessionMaxAge(p, -1)
    \/ \E d \in {"ok", "full"} : SetDisk(d)
    \/ \E p \in 1..Len(heap) : SessionSave(p, FALSE)

SpecSaveErrors == Init /\ [][NextSaveErrors]_vars

\* Concurrent requests: goroutines run save, load and erase of the session
\* files step by step under fileMutex.
FileOps == {"save", "load", "erase"}

NextFileMutex ==
    \/ \E t \in Goroutines, op \in FileOps, id \in IDs : Call(t, op, id)
    \/ \E t \in Goroutines : Announce(t)
    \/ \E t \in Goroutines : Lock(t)
    \/ \E t \in Goroutines : RLock(t)
    \/ \E t \in Goroutines : WriteFile(t)
    \/ \E t \in Goroutines : ReadFile(t)
    \/ \E t \in Goroutines : Remove(t)
    \/ \E t \in Goroutines : Unlock(t)
    \/ \E t \in Goroutines : RUnlock(t)
    \/ \E d \in {"ok", "full"} : SetDisk(d)

SpecFileMutex == Init /\ [][NextFileMutex]_vars

\* The same goroutines under fair scheduling, with session files that
\* expire.  A goroutine that can take its next step takes it; sync.RWMutex
\* hands the lock to every goroutine that waits for it (a waiting writer
\* stops new readers, waiting writers and readers are served in turn), so a
\* lock step that can be taken again and again is taken.
NextFileOps ==
    \/ \E t \in Goroutines, op \in FileOps : Call(t, op, 1)
    \/ \E t \in Goroutines : Announce(t)
    \/ \E t \in Goroutines : Lock(t)
    \/ \E t \in Goroutines : RLock(t)
    \/ \E t \in Goroutines : WriteFile(t)
    \/ \E t \in Goroutines : ReadFile(t)
    \/ \E t \in Goroutines : Remove(t)
    \/ \E t \in Goroutines : Unlock(t)
    \/ \E t \in Goroutines : RUnlock(t)
    \/ Tick

FileFairness ==
    \A t \in Goroutines :
        /\ SF_vars(Announce(t))
        /\ WF_vars(Lock(t))
        /\ SF_vars(RLock(t))
        /\ WF_vars(WriteFile(t))
        /\ WF_vars(ReadFile(t))
        /\ WF_vars(Remove(t))
        /\ WF_vars(Unlock(t))
        /\ WF_vars(RUnlock(t))

SpecFileOpsFair == Init /\ [][NextFileOps]_vars /\ FileFairness

\* Direct New / NewExact next to Get and Save(r, w): a handler creates
\* sessions itself, gets others through the registry and saves the
\* registered ones.
NextDirectNew ==
    \/ \E cookies \in {<<>>} \cup { <<c>> : c \in RespCookies } :
          NewRequest(cookies)
    \/ \E s \in Stores : New(s, SessionKey)
    \/ \E s \in Stores : NewExact(s, SessionKey, "First")
    \/ \E s \in Stores : Get(s, SessionKey)
    \/ \E p \in 1..Len(heap) : SetValue(p, "test", Plain("a"))
    \/ SaveAll

SpecDirectNew == Init /\ [][NextDirectNew]_vars

\* Session names: a handler asks for sessions by a valid and by an invalid
\* name, through the registry and directly.
NextNames ==
    \/ \E cookies \in CookieHeaders({ForgedCookie, OtherCookie}) :
          NewRequest(cookies)
    \/ \E s \in Stores, name \in Names : New(s, name)
    \/ \E s \in Stores, name \in Names : Get(s, name)

SpecNames == Init /\ [][NextNames]_vars

----------------------------------------------------------------------------
(* Properties of New / NewExact.                                           *)

\* The last call created a session of store s through New or NewExact.
JustCreated(s) == ret.op \in {"New", "NewExact"} /\ ret.s = s

\* Cookie i of the request, taken on its own, as CookieStore reads it.
CookieDecoded(i) ==
    DecodeMulti(ret.n, reqCookies[i].Value, Codecs("cs"), "map", now,
                codecMaxAge["cs"])

CookieAccepted(i) ==
    /\ reqCookies[i].Name = ret.n
    /\ CookieDecoded(i).err = NoErr
    /\ Matches(ret.m, [Values |-> CookieDecoded(i).p.m])

\* Cookie i of the request, taken on its own, as FilesystemStore reads it:
\* the id it carries and the values of that id's file.
FileDecoded(i) ==
    DecodeMulti(ret.n, reqCookies[i].Value, Codecs("fs"), "str", now,
                codecMaxAge["fs"])

FileLoaded(i) ==
    DecodeMulti(ret.n, files[FileDecoded(i).p.id], Codecs("fs"), "map", now,
                codecMaxAge["fs"])

FileAccepted(i) ==
    /\ reqCookies[i].Name = ret.n
    /\ FileDecoded(i).err = NoErr
    /\ FileLoaded(i).err = NoErr
    /\ Matches(ret.m, [Values |-> FileLoaded(i).p.m])

Least(S) == CHOOSE i \in S : \A j \in S : i <= j

\* C3: when New or NewExact returns a non-nil error, the session it
\* returns is non-nil, has IsNew = true and has empty Values.
C3_ErrorLeavesNewEmptySession ==
    (ret.op \in {"New", "NewExact"} /\ ret.err # NoErr) =>
        /\ ret.p # Nil
        /\ heap[ret.p].IsNew
        /\ heap[ret.p].Values = EmptyValues

\* C4: CookieStore.NewExact returns the values of the first cookie of the
\* name that decodes and that the matcher accepts, with IsNew = false, and
\* nothing of the cookies before or after it; when no cookie is accepted
\* the session has IsNew = true and empty Values.
C4_CookieStoreFirstAcceptedOnly ==
    (ret.op = "NewExact" /\ ret.s = "cs") =>
        LET accepted == { i \in 1..Len(reqCookies) : CookieAccepted(i) }
            session == heap[ret.p]
        IN IF accepted # {}
           THEN /\ ~session.IsNew
                /\ session.Values = CookieDecoded(Least(accepted)).p.m
           ELSE /\ session.IsNew
                /\ session.Values = EmptyValues

\* C4 witness: two cookies of the name, the first decodes to values the
\* matcher rejects, the second is accepted.
C4_Witness ==
    /\ ret.op = "NewExact" /\ ret.s = "cs"
    /\ Len(reqCookies) = 2
    /\ reqCookies[1].Name = ret.n
    /\ CookieDecoded(1).err = NoErr
    /\ CookieDecoded(1).p.m # EmptyValues
    /\ ~CookieAccepted(1)
    /\ CookieAccepted(2)

\* C5: FilesystemStore.New / NewExact returns the ID and the Values of the
\* first cookie of the name whose id decodes, whose file loads and that the
\* matcher accepts, with IsNew = false, whatever cookies follow it.
C5_FilesystemStoreFirstAcceptedOnly ==
    JustCreated("fs") =>
        LET accepted == { i \in 1..Len(reqCookies) : FileAccepted(i) }
            session == heap[ret.p]
        IN accepted # {} =>
              /\ ~session.IsNew
              /\ session.ID = FileDecoded(Least(accepted)).p.id
              /\ session.Values = FileLoaded(Least(accepted)).p.m

\* C6: FilesystemStore.Save of a session with MaxAge <= 0 whose file
\* exists removes that file and touches no other, adds one Set-Cookie of
\* the session's name with an empty value and the session's MaxAge, and
\* returns nil.
C6_SaveDeletesFile ==
    [][\A p \in 1..Len(heap) :
          ( /\ ret'.op = "Save" /\ ret'.p = p
            /\ heap[p].store = "fs"
            /\ optHeap[heap[p].Options].MaxAge <= 0
            /\ heap[p].ID \in IDs
            /\ files[heap[p].ID] # NoFile )
          => /\ ret'.err = NoErr
             /\ files' = [files EXCEPT ![heap[p].ID] = NoFile]
             /\ files'[heap[p].ID] = NoFile
             /\ Len(resp') = Len(resp) + 1
             /\ SubSeq(resp', 1, Len(resp)) = resp
             /\ resp'[Len(resp')].Name = heap[p].name
             /\ resp'[Len(resp')].Value = EmptyToken
             /\ resp'[Len(resp')].MaxAge = optHeap[heap[p].Options].MaxAge
    ]_vars

\* C6 witness: such a Save of a session with MaxAge = 0 whose ID names a
\* file has returned nil and set the empty cookie.
C6_Witness ==
    /\ ret.op = "Save" /\ ret.s = "fs" /\ ret.err = NoErr
    /\ optHeap[heap[ret.p].Options].MaxAge = 0
    /\ heap[ret.p].ID \in IDs
    /\ resp[Len(resp)].Value = EmptyToken

----------------------------------------------------------------------------
(* Properties of the registry.                                             *)

\* C1: every Get or GetExact of a store and name returns the session and
\* the error the first such call of the request returned, whatever the
\* matcher.
C1_SameSessionSameError ==
    ret.op \in {"Get", "GetExact"} =>
        /\ ret.p = hist[<<ret.s, ret.n>>].p
        /\ ret.err = hist[<<ret.s, ret.n>>].e

\* C1 witness: a GetExact after the first call returned the cached session
\* and the cached error, though its matcher rejects that session.
C1_Witness ==
    /\ ret.op = "GetExact" /\ ret.again
    /\ ret.p # Nil /\ ret.err # NoErr
    /\ ~Matches(ret.m, heap[ret.p])

\* C2: in one request the registry asks a store to decode a name at most
\* once.
C2_DecodeAtMostOnce ==
    \A key \in Stores \X Names : hist[key].calls <= 1

\* C2 witness: the first decode failed, the request's cookies have changed
\* so that a decode would now succeed, and a later Get returned the error
\* of the first.
C2_Witness ==
    /\ ret.op \in {"Get", "GetExact"} /\ ret.again
    /\ ret.err # NoErr
    /\ hist[<<ret.s, ret.n>>].calls = 1
    /\ StoreNewExact(ret.s, reqCookies, ret.n, ret.m, Nil).err = NoErr

\* The cookie c is what the store of session emits for it.
EmittedFor(c, session, fs) ==
    /\ c.Name = session.name
    /\ c.Value.n = session.name
    /\ c.Value.k = Codecs(session.store)[1]
    /\ session.store = "cs" => c.Value.p = MapPayload(session.Values)
    /\ session.store = "fs" =>
          /\ c.Value.p = StrPayload(session.ID)
          /\ fs[session.ID].p = MapPayload(session.Values)

\* C9: Save(r, w) that returns nil has added to the response one cookie
\* for each registered session, in the order of registration, each emitted
\* by the session's own store.
C9_SaveAllInRegistrationOrder ==
    [][(ret'.op = "SaveAll" /\ ret'.err = NoErr) =>
          /\ Len(resp') = Len(resp) + Len(registry.list)
          /\ SubSeq(resp', 1, Len(resp)) = resp
          /\ \A i \in 1..Len(registry.list) :
                EmittedFor(resp'[Len(resp) + i], heap'[registry.list[i]],
                           files')
    ]_vars

\* C9 witness: two sessions were registered, the FilesystemStore's first,
\* and Save(r, w) has set their two cookies.
C9_Witness ==
    /\ ret.op = "SaveAll" /\ ret.err = NoErr
    /\ Len(registry.list) = 2 /\ Len(resp) = 2
    /\ heap[registry.list[1]].store = "fs"
    /\ heap[registry.list[2]].store = "cs"

\* C10: Get of the name "s:k" returns the invalid-name error and no session
\* without a decode; no session of that name is cached or registered, and
\* no cookie of that name is set.
C10_InvalidNameRejected ==
    /\ (ret.op \in {"Get", "GetExact"} /\ ret.n = InvalidKey) =>
          ret.err = ErrInvalidName /\ ret.p = Nil /\ ~ret.called
    /\ \A s \in Stores :
          /\ registry.sessions[<<s, InvalidKey>>] = NoEntry
          /\ hist[<<s, InvalidKey>>].calls = 0
    /\ \A i \in 1..Len(registry.list) : heap[registry.list[i]].name # InvalidKey
    /\ \A i \in 1..Len(heap) : heap[i].name # InvalidKey
    /\ \A i \in 1..Len(resp) : resp[i].Name # InvalidKey

\* C10 witness: after a Get of "s:k", Save(r, w) has set the cookie of
\* another session.
C10_Witness ==
    /\ ret.op = "SaveAll" /\ ret.err = NoErr
    /\ hist[<<"cs", InvalidKey>>].got
    /\ Len(resp) > 0

----------------------------------------------------------------------------
(* Properties of Options.                                                  *)

\* The Options of session p.
SessionOptions(p) == optHeap[heap[p].Options]

\* C7: a session is created with a copy of its store's default Options;
\* assigning the store's Path or calling store.MaxAge(age) changes no
\* session's Options, and assigning a session's Options changes neither a
\* store's defaults nor another session's Options.
C7_OptionsArePrivateCopies ==
    [][/\ (ret'.op \in {"New", "NewExact", "Get"} /\ Len(heap') > Len(heap)) =>
            /\ optHeap'[heap'[ret'.p].Options] = optHeap[StoreCell(ret'.s)]
            /\ \A s \in Stores : optHeap'[StoreCell(s)] = optHeap[StoreCell(s)]
            /\ \A q \in 1..Len(heap) :
                  optHeap'[heap'[q].Options] = SessionOptions(q)
       /\ ret'.op \in {"SetStorePath", "MaxAge"} =>
            \A q \in 1..Len(heap) :
                optHeap'[heap'[q].Options] = SessionOptions(q)
       /\ ret'.op \in {"SetSessionPath", "SetSessionMaxAge"} =>
            /\ \A s \in Stores : optHeap'[StoreCell(s)] = optHeap[StoreCell(s)]
            /\ \A q \in 1..Len(heap) :
                  q # ret'.p => optHeap'[heap'[q].Options] = SessionOptions(q)
    ]_vars

\* C7 witness: store.MaxAge(age) has returned; the store's Path and MaxAge
\* are no longer the defaults its first session was created with and still
\* has, and its second session has a Path of its own.
C7_Witness ==
    /\ ret.op = "MaxAge"
    /\ Len(heap) = 2
    /\ heap[1].store = ret.s /\ heap[2].store = ret.s
    /\ optHeap[StoreCell(ret.s)].Path = "/foo"
    /\ optHeap[StoreCell(ret.s)].MaxAge = -1
    /\ SessionOptions(1) = DefaultOptions
    /\ SessionOptions(2).Path = "/foo"
    /\ SessionOptions(2).MaxAge = DefaultMaxAge

----------------------------------------------------------------------------
(* Properties of the round trip.                                           *)

\* The first Get of a request that carries exactly the cookie of the save
\* remembered for the store, a save of an earlier request, with the file
\* of the session as that save left it.
RoundTripCase ==
    /\ ret.op = "Get" /\ ~ret.again
    /\ saved[ret.s].has /\ ~saved[ret.s].cur
    /\ ret.n = saved[ret.s].name
    /\ reqCookies = <<Cookie(saved[ret.s].name, saved[ret.s].cookie)>>
    /\ ret.s = "fs" => files[saved[ret.s].ID] = saved[ret.s].file

\* The cookie of the save remembered is within the age ceiling of the
\* store's codecs.
WithinCodecMaxAge(s) ==
    codecMaxAge[s] = 0 \/ now - saved[s].cookie.t <= codecMaxAge[s]

\* The values as they arrive: for a pointer, the value it points to.
Arrived(values) ==
    [k \in Keys |-> IF values[k] = Pointer("a") THEN Plain("a")
                    ELSE values[k]]

\* C8 as stated: the Get returns nil, IsNew = false, the Values saved and,
\* for FilesystemStore, the ID saved.
C8_RoundTripAsStated ==
    RoundTripCase =>
        /\ ret.err = NoErr
        /\ ~heap[ret.p].IsNew
        /\ heap[ret.p].Values = saved[ret.s].Values
        /\ ret.s = "fs" => heap[ret.p].ID = saved[ret.s].ID

\* C8: when the cookie is within the age ceiling of the codecs, the Get
\* returns nil, IsNew = false, the Values saved with each pointer replaced
\* by the value it points to and, for FilesystemStore, the ID saved.
C8_RoundTrip ==
    (RoundTripCase /\ WithinCodecMaxAge(ret.s)) =>
        /\ ret.err = NoErr
        /\ ~heap[ret.p].IsNew
        /\ heap[ret.p].Values = Arrived(saved[ret.s].Values)
        /\ ret.s = "fs" => heap[ret.p].ID = saved[ret.s].ID

\* C8 witness: a FilesystemStore session saved with a pointer and a plain
\* value has come back in a later request.
C8_Witness ==
    /\ RoundTripCase /\ WithinCodecMaxAge(ret.s)
    /\ ret.s = "fs"
    /\ saved["fs"].Values["test"] = Pointer("a")
    /\ saved["fs"].Values["k2"] = Plain("a")
    /\ heap[ret.p].ID = saved["fs"].ID

----------------------------------------------------------------------------
(* Properties of the registry's key.                                       *)

\* C20: the sessions Get returns for two stores under one name are two
\* Session objects, each of the store it was got from and each listed once
\* for saving; no Get returns the session of another store.
C20_KeyedByStoreAndName ==
    /\ (ret.op \in {"Get", "GetExact"} /\ ret.p # Nil) =>
          heap[ret.p].store = ret.s
    /\ \A n \in Names :
          (hist[<<"cs", n>>].got /\ hist[<<"fs", n>>].got
             /\ hist[<<"cs", n>>].p # Nil /\ hist[<<"fs", n>>].p # Nil) =>
                /\ hist[<<"cs", n>>].p # hist[<<"fs", n>>].p
                /\ heap[hist[<<"cs", n>>].p].store = "cs"
                /\ heap[hist[<<"fs", n>>].p].store = "fs"
                /\ \A s \in Stores :
                      Cardinality({ i \in 1..Len(registry.list) :
                                      registry.list[i] = hist[<<s, n>>].p }) = 1

\* C20 witness: after CookieStore's session of a name was got, the first
\* Get of FilesystemStore for the name asked FilesystemStore to create one.
C20_Witness ==
    /\ ret.op = "Get" /\ ret.s = "fs" /\ ~ret.again /\ ret.called
    /\ hist[<<"cs", ret.n>>].got
    /\ hist[<<"cs", ret.n>>].p # ret.p
    /\ Len(registry.list) = 2

----------------------------------------------------------------------------
(* Properties of the session FilesystemStore returns as new.               *)

\* C19: a session FilesystemStore.New / NewExact returns with IsNew = true
\* has empty Values and an empty ID.
C19_NewSessionCarriesNoCandidateState ==
    (JustCreated("fs") /\ heap[ret.p].IsNew) =>
        /\ heap[ret.p].Values = EmptyValues
        /\ heap[ret.p].ID = NoID

----------------------------------------------------------------------------
(* Properties of the request's context.                                    *)

\* C11: when a session of a store and name was got through r, a Get for
\* them through a shallow copy that shares r's context returns that same
\* session; it creates none and decodes nothing.
C11_CopySharesRegistry ==
    [][(/\ ret'.op = "Get" /\ ret'.req # 1
        /\ requests[ret'.req].ctx = requests[1].ctx
        /\ hist[<<ret'.s, ret'.n>>].got
        /\ hist[<<ret'.s, ret'.n>>].p # Nil) =>
            /\ ret'.p = hist[<<ret'.s, ret'.n>>].p
            /\ ret'.err = hist[<<ret'.s, ret'.n>>].e
            /\ ~ret'.called
            /\ heap' = heap
    ]_vars

\* C11 witness: the Get through the copy returned the session got through
\* r, with the value the handler wrote to it after the first Get.
C11_Witness ==
    /\ ret.op = "Get" /\ ret.req = 2
    /\ requests[2].ctx = requests[1].ctx
    /\ ret.p = hist[<<ret.s, ret.n>>].p
    /\ heap[ret.p].Values["test"] = Plain("a")
    /\ heap[ret.p].IsNew

----------------------------------------------------------------------------
(* Properties of flashes.                                                  *)

\* The key a call with the arguments vars is about.
KeyOf(args) == IF args = <<>> THEN "_flash" ELSE args[1]

\* C12: Flashes(k) returns the flashes added under k since the queue was
\* empty, in the order they were added, and removes them; the Flashes(k)
\* that follows it at once returns none.
C12_FlashesDeliveredOnce ==
    [][/\ (ret'.op = "Flashes" /\ flashLog[ret'.p][KeyOf(ret'.args)].valid) =>
            /\ ret'.flashes = flashLog[ret'.p][KeyOf(ret'.args)].q
            /\ heap'[ret'.p].Values[KeyOf(ret'.args)] = Absent
       /\ (ret.op = "Flashes" /\ ret'.op = "Flashes"
             /\ ret'.p = ret.p /\ ret'.args = ret.args) =>
            ret'.flashes = <<>>
    ]_vars

\* C12 witness: two flashes were added under the default key and Flashes()
\* has returned the two, in that order.
C12_Witness ==
    /\ ret.op = "Flashes" /\ ret.args = <<>>
    /\ ret.flashes = <<"foo", "bar">>
    /\ heap[ret.p].Values["_flash"] = Absent

\* C13: AddFlash and Flashes of one key leave the value under every other
\* key as it was, and Flashes returns only what was stored under its key.
C13_FlashKeysIndependent ==
    [][ret'.op \in {"AddFlash", "Flashes"} =>
          /\ \A k \in Keys \ {KeyOf(ret'.args)} :
                heap'[ret'.p].Values[k] = heap[ret'.p].Values[k]
          /\ ret'.op = "Flashes" =>
                ret'.flashes = heap[ret'.p].Values[KeyOf(ret'.args)].l
          /\ ret'.op = "AddFlash" =>
                /\ Len(heap'[ret'.p].Values[KeyOf(ret'.args)].l)
                     = Len(heap[ret'.p].Values[KeyOf(ret'.args)].l) + 1
    ]_vars

\* C13 witness: Flashes("custom_key") has returned its flash while another
\* flash stays under the default key.
C13_Witness ==
    /\ ret.op = "Flashes" /\ ret.args = <<"custom_key">>
    /\ ret.flashes = <<"bar">>
    /\ heap[ret.p].Values["_flash"] = FlashList(<<"foo">>)
    /\ heap[ret.p].Values["custom_key"] = Absent

----------------------------------------------------------------------------
(* Properties of the cookie Save sets.                                     *)

\* C14: the cookie a Save that returns nil adds has the session's name,
\* the value the store encoded (or the empty value) and the six attributes
\* of the session's Options as they are at the Save.
C14_CookieFromSessionOptions ==
    [][(ret'.op = "Save" /\ ret'.err = NoErr) =>
          /\ Len(resp') = Len(resp) + 1
          /\ LET c == resp'[Len(resp')]
                 session == heap[ret'.p]
                 o == optHeap[session.Options]
             IN /\ c.Name = session.name
                /\ c.Value = EmptyToken \/ c.Value.n = session.name
                /\ c.Path = o.Path
                /\ c.Domain = o.Domain
                /\ c.MaxAge = o.MaxAge
                /\ c.Secure = o.Secure
                /\ c.HttpOnly = o.HttpOnly
                /\ c.SameSite = o.SameSite
    ]_vars

\* C14 witness: CookieStore saved a session whose Options have MaxAge = 0
\* and a Path that is not the store's default.
C14_Witness ==
    /\ ret.op = "Save" /\ ret.s = "cs" /\ ret.err = NoErr
    /\ resp[Len(resp)].MaxAge = 0
    /\ resp[Len(resp)].Path = "/foo/bar"
    /\ resp[Len(resp)].Domain = "foo.example.com"
    /\ optHeap[StoreCell("cs")].Path = "/foo"
    /\ optHeap[StoreCell("cs")].MaxAge = DefaultMaxAge

----------------------------------------------------------------------------
(* Properties of a Save that fails.                                        *)

\* C17: a store's Save that returns an error has added no Set-Cookie
\* header to the response.
C17_FailedSaveSetsNoCookie ==
    [][(ret'.op = "Save" /\ ret'.err # NoErr) => resp' = resp]_vars

\* C17 witness: after a Save that set a cookie, a FilesystemStore Save has
\* failed to write the session file.
C17_Witness ==
    /\ ret.op = "Save" /\ ret.s = "fs" /\ ret.err = ErrWrite
    /\ Len(resp) = 1

\* C18: the ID of a FilesystemStore session changes from empty to an id
\* only in a Save of that session that returns nil.
C18_IDEmptyUntilSaved ==
    [][\A p \in 1..Len(heap) :
          (/\ p <= Len(heap')
           /\ ret'.op # "NewRequest"
           /\ heap[p].store = "fs"
           /\ heap[p].ID = NoID
           /\ heap'[p].ID # NoID) =>
              (ret'.op = "Save" /\ ret'.p = p /\ ret'.err = NoErr)
    ]_vars

----------------------------------------------------------------------------
(* Properties of fileMutex.                                                *)

\* C15: while a save holds the lock no other save, load or erase holds it,
\* and a load holds it only together with other read-lock holders (loads
\* and erases).
C15_WriterExcludesAll ==
    \A t \in Goroutines : \A u \in Goroutines \ {t} :
        /\ (Holding(t) /\ pc[t].op = "save") => ~Holding(u)
        /\ (Holding(t) /\ pc[t].op = "load" /\ Holding(u)) =>
               (u \in fileMutex.readers /\ pc[u].op \in {"load", "erase"})

\* C15 witness: one save is writing while a second save and a load wait for
\* the lock.
C15_Witness ==
    \E t \in Goroutines : \E u \in Goroutines \ {t} :
      \E x \in Goroutines \ {t, u} :
        /\ Working(t) /\ pc[t].op = "save"
        /\ pc[u].op = "save" /\ pc[u].at = "lock"
        /\ pc[x].op = "load" /\ pc[x].at = "lock"

\* C16: while an erase is removing a file no load is reading and no other
\* erase is removing.
C16_EraseExcludesReaders ==
    \A t \in Goroutines : \A u \in Goroutines \ {t} :
        (Working(t) /\ pc[t].op = "erase") =>
            ~(Working(u) /\ pc[u].op \in {"load", "erase"})

----------------------------------------------------------------------------
(* Direct New / NewExact and the registry.                                 *)

\* C21: New and NewExact leave the registry and the request's context as
\* they were and return a Session instance distinct from every existing
\* one; a first Get of the request returns a new instance, not one New
\* returned; Save(r, w) saves no session the registry does not list.
C21_NewLeavesRegistry ==
    [][/\ ret'.op \in {"New", "NewExact"} =>
            /\ registry' = registry
            /\ requests' = requests
            /\ regHeap' = regHeap
            /\ ret'.p = Len(heap) + 1
            /\ Len(heap') = Len(heap) + 1
            /\ \A p \in 1..Len(heap) : heap'[p] = heap[p]
       /\ (ret'.op = "Get" /\ ~ret'.again) => ret'.p = Len(heap) + 1
       /\ ret'.op = "SaveAll" =>
            /\ \A p \in 1..Len(heap) :
                  (\A i \in 1..Len(registry.list) : registry.list[i] # p)
                      => heap'[p] = heap[p]
            /\ registry.list = <<>> => (resp' = resp /\ files' = files)
    ]_vars

\* C21 witness: two New calls of one request have decoded the same cookie
\* into two Session instances, and the registry lists neither.
C21_Witness ==
    /\ ret.op = "New" /\ ret.p = 2
    /\ heap[1].store = heap[2].store
    /\ ~heap[1].IsNew /\ ~heap[2].IsNew
    /\ heap[1].Values["test"] = Plain("a")
    /\ heap[2].Values["test"] = Plain("a")
    /\ registry.list = <<>>

----------------------------------------------------------------------------
(* Session names.                                                          *)

\* C23: a New called with a name that holds a character outside the
\* cookie-name token set returns an error.
C23_NewRejectsInvalidName ==
    (ret.op = "New" /\ ~IsCookieNameValid(ret.n)) => ret.err # NoErr

\* C22: fileMutex is held by exactly the goroutines between their lock and
\* their unlock, so it is free when no file operation is in progress, and
\* under fair scheduling every load, save or erase that started returns.
C22_LockReleasedAndOpsComplete ==
    /\ [](/\ fileMutex.readers =
               { t \in Goroutines :
                    Holding(t) /\ pc[t].op \in {"load", "erase"} }
          /\ \A t \in Goroutines :
               /\ fileMutex.writer = t <=> (Holding(t) /\ pc[t].op = "save")
               /\ fileMutex.w = t <=>
                     (pc[t].op = "save" /\ pc[t].at \in {"wait", "io", "unlock"})
          /\ (\A t \in Goroutines : pc[t] = Idle) => fileMutex = Unlocked)
    /\ \A t \in Goroutines : (pc[t] # Idle) ~> (pc[t] = Idle)

\* C22 witness: a load has returned the decode error of an expired session
\* file, no file operation is in progress and the lock is free.
C22_Witness ==
    /\ ret.op = "RUnlock" /\ ret.err = ErrExpired
    /\ \A t \in Goroutines : pc[t] = Idle
    /\ fileMutex = Unlocked

====
